---- MODULE Spec2Model ----
(***************************************************************************)
(* TTerm kanban TODO list: the TodoApp of src/tterminal/main.py, its modal *)
(* screens and the TaskManager they call.  Text (titles, descriptions,     *)
(* deadline input) is a sequence of one-character strings, so that strip,  *)
(* strptime and strftime are computed and not assumed.                     *)
(***************************************************************************)
EXTENDS Integers, Sequences, FiniteSets, TLC

VARIABLES
    phase,              \* "constructed" (after TodoApp.__init__), "running" (mounted), "exited"
    tasks,              \* TaskManager.tasks: the in-memory collection, in insertion order
    storage,            \* the persisted snapshot: [state, records]
    sort_mode,          \* TodoApp.sort_mode
    last_task_count,    \* TodoApp._last_task_count
    columns,            \* the three KanbanColumns: status tag -> sequence of task ids shown
    used,               \* ids uuid4 has handed out so far
    now,                \* the wall clock datetime.now() reads
    last                \* the last handler that ran, its inputs and what it returned

vars == <<phase, tasks, storage, sort_mode, last_task_count, columns, used, now, last>>

-----------------------------------------------------------------------------
(* Bounds of the model. *)

MaxCreates == 2

\* The most tasks a storage file of an earlier run holds.
MaxStored == 3

-----------------------------------------------------------------------------
(* Text *)

\* A missing deadline (Python None); a deadline that is set is <<y, m, d>>.
None == <<>>

\* The characters str.strip() removes: those str.isspace() is true of.  A
\* character that cannot be written in a string here is written by its code
\* point, "U+00A0" for the no-break space.
Whitespace ==
    {"\t", "\n", "U+000B", "\f", "\r", "U+001C",
     "U+001D", "U+001E", "U+001F", " ", "U+0085", "U+00A0",
     "U+1680", "U+2000", "U+2001", "U+2002", "U+2003", "U+2004",
     "U+2005", "U+2006", "U+2007", "U+2008", "U+2009", "U+200A",
     "U+2028", "U+2029", "U+202F", "U+205F", "U+3000"}

RECURSIVE lstrip(_)
lstrip(s) ==
    IF s # <<>> /\ Head(s) \in Whitespace THEN lstrip(Tail(s)) ELSE s

RECURSIVE rstrip(_)
rstrip(s) ==
    IF s # <<>> /\ s[Len(s)] \in Whitespace
    THEN rstrip(SubSeq(s, 1, Len(s) - 1))
    ELSE s

strip(s) == rstrip(lstrip(s))

\* [0-9]
AsciiDigits == {"0", "1", "2", "3", "4", "5", "6", "7", "8", "9"}

\* [1-9]
NonZeroDigits == AsciiDigits \ {"0"}

\* The decimal digits of the other scripts, by their code points: one row per
\* script, from its zero to its nine.
UnicodeDigits ==
    <<
      <<"U+0660", "U+0661", "U+0662", "U+0663", "U+0664", "U+0665", "U+0666", "U+0667", "U+0668", "U+0669">>,
      <<"U+06F0", "U+06F1", "U+06F2", "U+06F3", "U+06F4", "U+06F5", "U+06F6", "U+06F7", "U+06F8", "U+06F9">>,
      <<"U+07C0", "U+07C1", "U+07C2", "U+07C3", "U+07C4", "U+07C5", "U+07C6", "U+07C7", "U+07C8", "U+07C9">>,
      <<"U+0966", "U+0967", "U+0968", "U+0969", "U+096A", "U+096B", "U+096C", "U+096D", "U+096E", "U+096F">>,
      <<"U+09E6", "U+09E7", "U+09E8", "U+09E9", "U+09EA", "U+09EB", "U+09EC", "U+09ED", "U+09EE", "U+09EF">>,
      <<"U+0A66", "U+0A67", "U+0A68", "U+0A69", "U+0A6A", "U+0A6B", "U+0A6C", "U+0A6D", "U+0A6E", "U+0A6F">>,
      <<"U+0AE6", "U+0AE7", "U+0AE8", "U+0AE9", "U+0AEA", "U+0AEB", "U+0AEC", "U+0AED", "U+0AEE", "U+0AEF">>,
      <<"U+0B66", "U+0B67", "U+0B68", "U+0B69", "U+0B6A", "U+0B6B", "U+0B6C", "U+0B6D", "U+0B6E", "U+0B6F">>,
      <<"U+0BE6", "U+0BE7", "U+0BE8", "U+0BE9", "U+0BEA", "U+0BEB", "U+0BEC", "U+0BED", "U+0BEE", "U+0BEF">>,
      <<"U+0C66", "U+0C67", "U+0C68", "U+0C69", "U+0C6A", "U+0C6B", "U+0C6C", "U+0C6D", "U+0C6E", "U+0C6F">>,
      <<"U+0CE6", "U+0CE7", "U+0CE8", "U+0CE9", "U+0CEA", "U+0CEB", "U+0CEC", "U+0CED", "U+0CEE", "U+0CEF">>,
      <<"U+0D66", "U+0D67", "U+0D68", "U+0D69", "U+0D6A", "U+0D6B", "U+0D6C", "U+0D6D", "U+0D6E", "U+0D6F">>,
      <<"U+0DE6", "U+0DE7", "U+0DE8", "U+0DE9", "U+0DEA", "U+0DEB", "U+0DEC", "U+0DED", "U+0DEE", "U+0DEF">>,
      <<"U+0E50", "U+0E51", "U+0E52", "U+0E53", "U+0E54", "U+0E55", "U+0E56", "U+0E57", "U+0E58", "U+0E59">>,
      <<"U+0ED0", "U+0ED1", "U+0ED2", "U+0ED3", "U+0ED4", "U+0ED5", "U+0ED6", "U+0ED7", "U+0ED8", "U+0ED9">>,
      <<"U+0F20", "U+0F21", "U+0F22", "U+0F23", "U+0F24", "U+0F25", "U+0F26", "U+0F27", "U+0F28", "U+0F29">>,
      <<"U+1040", "U+1041", "U+1042", "U+1043", "U+1044", "U+1045", "U+1046", "U+1047", "U+1048", "U+1049">>,
      <<"U+1090", "U+1091", "U+1092", "U+1093", "U+1094", "U+1095", "U+1096", "U+1097", "U+1098", "U+1099">>,
      <<"U+17E0", "U+17E1", "U+17E2", "U+17E3", "U+17E4", "U+17E5", "U+17E6", "U+17E7", "U+17E8", "U+17E9">>,
      <<"U+1810", "U+1811", "U+1812", "U+1813", "U+1814", "U+1815", "U+1816", "U+1817", "U+1818", "U+1819">>,
      <<"U+1946", "U+1947", "U+1948", "U+1949", "U+194A", "U+194B", "U+194C", "U+194D", "U+194E", "U+194F">>,
      <<"U+19D0", "U+19D1", "U+19D2", "U+19D3", "U+19D4", "U+19D5", "U+19D6", "U+19D7", "U+19D8", "U+19D9">>,
      <<"U+1A80", "U+1A81", "U+1A82", "U+1A83", "U+1A84", "U+1A85", "U+1A86", "U+1A87", "U+1A88", "U+1A89">>,
      <<"U+1A90", "U+1A91", "U+1A92", "U+1A93", "U+1A94", "U+1A95", "U+1A96", "U+1A97", "U+1A98", "U+1A99">>,
      <<"U+1B50", "U+1B51", "U+1B52", "U+1B53", "U+1B54", "U+1B55", "U+1B56", "U+1B57", "U+1B58", "U+1B59">>,
      <<"U+1BB0", "U+1BB1", "U+1BB2", "U+1BB3", "U+1BB4", "U+1BB5", "U+1BB6", "U+1BB7", "U+1BB8", "U+1BB9">>,
      <<"U+1C40", "U+1C41", "U+1C42", "U+1C43", "U+1C44", "U+1C45", "U+1C46", "U+1C47", "U+1C48", "U+1C49">>,
      <<"U+1C50", "U+1C51", "U+1C52", "U+1C53", "U+1C54", "U+1C55", "U+1C56", "U+1C57", "U+1C58", "U+1C59">>,
      <<"U+A620", "U+A621", "U+A622", "U+A623", "U+A624", "U+A625", "U+A626", "U+A627", "U+A628", "U+A629">>,
      <<"U+A8D0", "U+A8D1", "U+A8D2", "U+A8D3", "U+A8D4", "U+A8D5", "U+A8D6", "U+A8D7", "U+A8D8", "U+A8D9">>,
      <<"U+A900", "U+A901", "U+A902", "U+A903", "U+A904", "U+A905", "U+A906", "U+A907", "U+A908", "U+A909">>,
      <<"U+A9D0", "U+A9D1", "U+A9D2", "U+A9D3", "U+A9D4", "U+A9D5", "U+A9D6", "U+A9D7", "U+A9D8", "U+A9D9">>,
      <<"U+A9F0", "U+A9F1", "U+A9F2", "U+A9F3", "U+A9F4", "U+A9F5", "U+A9F6", "U+A9F7", "U+A9F8", "U+A9F9">>,
      <<"U+AA50", "U+AA51", "U+AA52", "U+AA53", "U+AA54", "U+AA55", "U+AA56", "U+AA57", "U+AA58", "U+AA59">>,
      <<"U+ABF0", "U+ABF1", "U+ABF2", "U+ABF3", "U+ABF4", "U+ABF5", "U+ABF6", "U+ABF7", "U+ABF8", "U+ABF9">>,
      <<"U+FF10", "U+FF11", "U+FF12", "U+FF13", "U+FF14", "U+FF15", "U+FF16", "U+FF17", "U+FF18", "U+FF19">>,
      <<"U+104A0", "U+104A1", "U+104A2", "U+104A3", "U+104A4", "U+104A5", "U+104A6", "U+104A7", "U+104A8", "U+104A9">>,
      <<"U+10D30", "U+10D31", "U+10D32", "U+10D33", "U+10D34", "U+10D35", "U+10D36", "U+10D37", "U+10D38", "U+10D39">>,
      <<"U+11066", "U+11067", "U+11068", "U+11069", "U+1106A", "U+1106B", "U+1106C", "U+1106D", "U+1106E", "U+1106F">>,
      <<"U+110F0", "U+110F1", "U+110F2", "U+110F3", "U+110F4", "U+110F5", "U+110F6", "U+110F7", "U+110F8", "U+110F9">>,
      <<"U+11136", "U+11137", "U+11138", "U+11139", "U+1113A", "U+1113B", "U+1113C", "U+1113D", "U+1113E", "U+1113F">>,
      <<"U+111D0", "U+111D1", "U+111D2", "U+111D3", "U+111D4", "U+111D5", "U+111D6", "U+111D7", "U+111D8", "U+111D9">>,
      <<"U+112F0", "U+112F1", "U+112F2", "U+112F3", "U+112F4", "U+112F5", "U+112F6", "U+112F7", "U+112F8", "U+112F9">>,
      <<"U+11450", "U+11451", "U+11452", "U+11453", "U+11454", "U+11455", "U+11456", "U+11457", "U+11458", "U+11459">>,
      <<"U+114D0", "U+114D1", "U+114D2", "U+114D3", "U+114D4", "U+114D5", "U+114D6", "U+114D7", "U+114D8", "U+114D9">>,
      <<"U+11650", "U+11651", "U+11652", "U+11653", "U+11654", "U+11655", "U+11656", "U+11657", "U+11658", "U+11659">>,
      <<"U+116C0", "U+116C1", "U+116C2", "U+116C3", "U+116C4", "U+116C5", "U+116C6", "U+116C7", "U+116C8", "U+116C9">>,
      <<"U+11730", "U+11731", "U+11732", "U+11733", "U+11734", "U+11735", "U+11736", "U+11737", "U+11738", "U+11739">>,
      <<"U+118E0", "U+118E1", "U+118E2", "U+118E3", "U+118E4", "U+118E5", "U+118E6", "U+118E7", "U+118E8", "U+118E9">>,
      <<"U+11950", "U+11951", "U+11952", "U+11953", "U+11954", "U+11955", "U+11956", "U+11957", "U+11958", "U+11959">>,
      <<"U+11C50", "U+11C51", "U+11C52", "U+11C53", "U+11C54", "U+11C55", "U+11C56", "U+11C57", "U+11C58", "U+11C59">>,
      <<"U+11D50", "U+11D51", "U+11D52", "U+11D53", "U+11D54", "U+11D55", "U+11D56", "U+11D57", "U+11D58", "U+11D59">>,
      <<"U+11DA0", "U+11DA1", "U+11DA2", "U+11DA3", "U+11DA4", "U+11DA5", "U+11DA6", "U+11DA7", "U+11DA8", "U+11DA9">>,
      <<"U+16A60", "U+16A61", "U+16A62", "U+16A63", "U+16A64", "U+16A65", "U+16A66", "U+16A67", "U+16A68", "U+16A69">>,
      <<"U+16AC0", "U+16AC1", "U+16AC2", "U+16AC3", "U+16AC4", "U+16AC5", "U+16AC6", "U+16AC7", "U+16AC8", "U+16AC9">>,
      <<"U+16B50", "U+16B51", "U+16B52", "U+16B53", "U+16B54", "U+16B55", "U+16B56", "U+16B57", "U+16B58", "U+16B59">>,
      <<"U+1D7CE", "U+1D7CF", "U+1D7D0", "U+1D7D1", "U+1D7D2", "U+1D7D3", "U+1D7D4", "U+1D7D5", "U+1D7D6", "U+1D7D7">>,
      <<"U+1D7D8", "U+1D7D9", "U+1D7DA", "U+1D7DB", "U+1D7DC", "U+1D7DD", "U+1D7DE", "U+1D7DF", "U+1D7E0", "U+1D7E1">>,
      <<"U+1D7E2", "U+1D7E3", "U+1D7E4", "U+1D7E5", "U+1D7E6", "U+1D7E7", "U+1D7E8", "U+1D7E9", "U+1D7EA", "U+1D7EB">>,
      <<"U+1D7EC", "U+1D7ED", "U+1D7EE", "U+1D7EF", "U+1D7F0", "U+1D7F1", "U+1D7F2", "U+1D7F3", "U+1D7F4", "U+1D7F5">>,
      <<"U+1D7F6", "U+1D7F7", "U+1D7F8", "U+1D7F9", "U+1D7FA", "U+1D7FB", "U+1D7FC", "U+1D7FD", "U+1D7FE", "U+1D7FF">>,
      <<"U+1E140", "U+1E141", "U+1E142", "U+1E143", "U+1E144", "U+1E145", "U+1E146", "U+1E147", "U+1E148", "U+1E149">>,
      <<"U+1E2F0", "U+1E2F1", "U+1E2F2", "U+1E2F3", "U+1E2F4", "U+1E2F5", "U+1E2F6", "U+1E2F7", "U+1E2F8", "U+1E2F9">>,
      <<"U+1E950", "U+1E951", "U+1E952", "U+1E953", "U+1E954", "U+1E955", "U+1E956", "U+1E957", "U+1E958", "U+1E959">>,
      <<"U+1FBF0", "U+1FBF1", "U+1FBF2", "U+1FBF3", "U+1FBF4", "U+1FBF5", "U+1FBF6", "U+1FBF7", "U+1FBF8", "U+1FBF9">>
    >>

\* \d of a str pattern: every Unicode decimal digit.
DigitChars ==
    AsciiDigits
    \cup {UnicodeDigits[r][k] : r \in 1..Len(UnicodeDigits), k \in 1..10}

\* int(c) of one digit.
DigitVal(c) ==
    CASE c = "0" -> 0 [] c = "1" -> 1 [] c = "2" -> 2 [] c = "3" -> 3
      [] c = "4" -> 4 [] c = "5" -> 5 [] c = "6" -> 6 [] c = "7" -> 7
      [] c = "8" -> 8 [] c = "9" -> 9
      [] OTHER -> (CHOOSE k \in 1..10 :
                      \E r \in 1..Len(UnicodeDigits) : UnicodeDigits[r][k] = c) - 1

DigitChar(n) ==
    CASE n = 0 -> "0" [] n = 1 -> "1" [] n = 2 -> "2" [] n = 3 -> "3"
      [] n = 4 -> "4" [] n = 5 -> "5" [] n = 6 -> "6" [] n = 7 -> "7"
      [] n = 8 -> "8" [] n = 9 -> "9"

AllDigits(s) == \A i \in 1..Len(s) : s[i] \in DigitChars

\* int(s) of a text of digits.
RECURSIVE NumVal(_)
NumVal(s) ==
    IF s = <<>> THEN 0
    ELSE 10 * NumVal(SubSeq(s, 1, Len(s) - 1)) + DigitVal(s[Len(s)])

\* n written in decimal, zero-padded to at least w characters.
RECURSIVE Pad(_, _)
Pad(n, w) ==
    IF w <= 1 /\ n < 10 THEN <<DigitChar(n)>>
    ELSE Pad(n \div 10, w - 1) \o <<DigitChar(n % 10)>>

\* s cut at every "-": the sequence of the parts.
RECURSIVE SplitDash(_)
SplitDash(s) ==
    IF s = <<>> THEN << <<>> >>
    ELSE LET rest == SplitDash(Tail(s)) IN
         IF Head(s) = "-" THEN << <<>> >> \o rest
         ELSE << <<Head(s)>> \o rest[1] >> \o Tail(rest)

-----------------------------------------------------------------------------
(* Dates: datetime.strptime(text, "%Y-%m-%d") and strftime("%Y-%m-%d").    *)
(* A deadline is a midnight datetime, held as <<y, m, d>>.                 *)

IsLeap(y) == (y % 4 = 0 /\ y % 100 # 0) \/ y % 400 = 0

DaysInMonth(y, m) ==
    IF m = 2 THEN (IF IsLeap(y) THEN 29 ELSE 28)
    ELSE IF m \in {4, 6, 9, 11} THEN 30 ELSE 31

\* %Y is \d\d\d\d
MatchesY(p) == Len(p) = 4 /\ AllDigits(p)

\* %m is 1[0-2]|0[1-9]|[1-9]
MatchesM(p) ==
    \/ Len(p) = 2 /\ p[1] = "1" /\ p[2] \in {"0", "1", "2"}
    \/ Len(p) = 2 /\ p[1] = "0" /\ p[2] \in NonZeroDigits
    \/ Len(p) = 1 /\ p[1] \in NonZeroDigits

\* %d is 3[0-1]|[1-2]\d|0[1-9]|[1-9]| [1-9]
MatchesD(p) ==
    \/ Len(p) = 2 /\ p[1] = "3" /\ p[2] \in {"0", "1"}
    \/ Len(p) = 2 /\ p[1] \in {"1", "2"} /\ p[2] \in DigitChars
    \/ Len(p) = 2 /\ p[1] = "0" /\ p[2] \in NonZeroDigits
    \/ Len(p) = 1 /\ p[1] \in NonZeroDigits
    \/ Len(p) = 2 /\ p[1] = " " /\ p[2] \in NonZeroDigits

DayVal(p) == IF p[1] = " " THEN DigitVal(p[2]) ELSE NumVal(p)

\* strptime without the check of the day against the length of the month.
strptime_fails_any_day(text) ==
    LET parts == SplitDash(text) IN
    \/ Len(parts) # 3
    \/ ~MatchesY(parts[1])
    \/ ~MatchesM(parts[2])
    \/ ~MatchesD(parts[3])
    \/ NumVal(parts[1]) < 1

\* TRUE when strptime raises ValueError on the text.
strptime_fails(text) ==
    LET parts == SplitDash(text) IN
    \/ Len(parts) # 3
    \/ ~MatchesY(parts[1])
    \/ ~MatchesM(parts[2])
    \/ ~MatchesD(parts[3])
    \/ NumVal(parts[1]) < 1
    \/ DayVal(parts[3]) > DaysInMonth(NumVal(parts[1]), NumVal(parts[2]))

strptime(text) ==
    LET parts == SplitDash(text) IN
    <<NumVal(parts[1]), NumVal(parts[2]), DayVal(parts[3])>>

\* strftime("%Y-%m-%d") of the C library the program runs on (glibc): %m and
\* %d are zero-padded to two digits, %Y is not padded.
strftime(date) ==
    Pad(date[1], 1) \o <<"-">> \o Pad(date[2], 2) \o <<"-">> \o Pad(date[3], 2)

\* The date as the storage file holds it: YYYY-MM-DD, every field zero-padded.
isoformat(date) ==
    Pad(date[1], 4) \o <<"-">> \o Pad(date[2], 2) \o <<"-">> \o Pad(date[3], 2)

\* TRUE when the text of a stored record is not such a date.
fromisoformat_fails(text) ==
    \/ Len(text) # 10
    \/ text[5] # "-"
    \/ text[8] # "-"
    \/ \E i \in {1, 2, 3, 4, 6, 7, 9, 10} : text[i] \notin AsciiDigits
    \/ NumVal(SubSeq(text, 1, 4)) < 1
    \/ NumVal(SubSeq(text, 6, 7)) \notin 1..12
    \/ NumVal(SubSeq(text, 9, 10)) < 1
    \/ NumVal(SubSeq(text, 9, 10)) >
          DaysInMonth(NumVal(SubSeq(text, 1, 4)), NumVal(SubSeq(text, 6, 7)))

fromisoformat(text) ==
    <<NumVal(SubSeq(text, 1, 4)), NumVal(SubSeq(text, 6, 7)),
      NumVal(SubSeq(text, 9, 10))>>

-----------------------------------------------------------------------------------------------------------------------------------------------------
(* models.Priority and models.Status: the members and their string tags.   *)

Priority ==
    {"URGENT_IMPORTANT", "NOT_URGENT_IMPORTANT",
     "URGENT_NOT_IMPORTANT", "NOT_URGENT_NOT_IMPORTANT"}

\* Iteration order of `for status in Status`.
StatusOrder == <<"TODO", "DOING", "DONE">>

Status == {StatusOrder[i] : i \in 1..Len(StatusOrder)}

\* member.value
EnumValue(member) ==
    CASE member = "URGENT_IMPORTANT" -> "urgent_important"
      [] member = "NOT_URGENT_IMPORTANT" -> "not_urgent_important"
      [] member = "URGENT_NOT_IMPORTANT" -> "urgent_not_important"
      [] member = "NOT_URGENT_NOT_IMPORTANT" -> "not_urgent_not_important"
      [] member = "TODO" -> "todo"
      [] member = "DOING" -> "doing"
      [] member = "DONE" -> "done"

PriorityRank(p) ==
    CASE p = "URGENT_IMPORTANT" -> 0
      [] p = "NOT_URGENT_IMPORTANT" -> 1
      [] p = "URGENT_NOT_IMPORTANT" -> 2
      [] p = "NOT_URGENT_NOT_IMPORTANT" -> 3

PriorityTags == {EnumValue(p) : p \in Priority}

StatusTags == {EnumValue(s) : s \in Status}

\* Priority(tag)
PriorityOf(tag) == CHOOSE p \in Priority : EnumValue(p) = tag

\* Status(tag)
StatusOf(tag) == CHOOSE s \in Status : EnumValue(s) = tag

-----
(* models.Task and models.TaskManager.                                      *)

\* Task(id=..., title=..., description=..., priority=..., deadline=...):
\* status defaults to TODO, created_at to the time of the call.
Task(id, title, description, priority, deadline, clock) ==
    [id |-> id, title |-> title, description |-> description,
     priority |-> priority, status |-> "TODO", deadline |-> deadline,
     created_at |-> clock]

TaskIds(ts) == {ts[i].id : i \in 1..Len(ts)}

HasTask(ts, id) == id \in TaskIds(ts)

\* TaskManager.get_task: the first task with the id.
get_task(ts, id) ==
    ts[CHOOSE i \in 1..Len(ts) :
           ts[i].id = id /\ \A j \in 1..(i - 1) : ts[j].id # id]

\* One stored record of the file.
to_dict(t) ==
    [id |-> t.id, title |-> t.title, description |-> t.description,
     priority |-> EnumValue(t.priority), status |-> EnumValue(t.status),
     deadline |-> IF t.deadline = None THEN None ELSE isoformat(t.deadline),
     created_at |-> Pad(t.created_at, 1)]

from_dict(r) ==
    [id |-> r.id, title |-> r.title, description |-> r.description,
     priority |-> PriorityOf(r.priority), status |-> StatusOf(r.status),
     deadline |-> IF r.deadline = None THEN None ELSE fromisoformat(r.deadline),
     created_at |-> NumVal(r.created_at)]

\* [task.to_dict() for task in tasks]
RECURSIVE Dicts(_)
Dicts(ts) ==
    IF ts = <<>> THEN <<>> ELSE <<to_dict(Head(ts))>> \o Dicts(Tail(ts))

\* [Task.from_dict(record) for record in records]
RECURSIVE Tasks(_)
Tasks(rs) ==
    IF rs = <<>> THEN <<>> ELSE <<from_dict(Head(rs))>> \o Tasks(Tail(rs))

\* TaskManager.save_tasks: the whole collection replaces the previous snapshot.
save_tasks(ts) == [state |-> "ok", records |-> Dicts(ts)]

\* A stored record from_dict can rebuild a Task from.
Decodable(r) ==
    /\ r.priority \in PriorityTags
    /\ r.status \in StatusTags
    /\ r.deadline = None \/ ~fromisoformat_fails(r.deadline)
    /\ r.created_at # <<>> /\ AllDigits(r.created_at)

\* TaskManager.load_tasks: a missing, unreadable or undecodable file gives the
\* empty collection.
load_tasks(st) ==
    IF st.state = "ok" /\ \A i \in 1..Len(st.records) : Decodable(st.records[i])
    THEN Tasks(st.records)
    ELSE <<>>

\* TaskManager.force_save
force_save(ts) == save_tasks(ts)

\* What a manager call that changed the collection leaves: the collection,
\* the snapshot save_tasks wrote of it, and the value returned.
Saved(ts, result) == [tasks |-> ts, storage |-> save_tasks(ts), result |-> result]

\* TaskManager.add_task: append and save.
add_task(ts, st, task) == Saved(Append(ts, task), "")

\* One field of a task after update_task(id, **kw): an empty title is not
\* taken, every other supplied field overwrites.
UpdatedField(t, kw, f) ==
    IF f \notin DOMAIN kw THEN t[f]
    ELSE IF f = "title" /\ strip(kw[f]) = <<>> THEN t[f]
    ELSE kw[f]

\* The task after update_task has set the supplied fields.
Updated(t, kw) ==
    [id |-> t.id,
     title |-> UpdatedField(t, kw, "title"),
     description |-> UpdatedField(t, kw, "description"),
     priority |-> UpdatedField(t, kw, "priority"),
     status |-> UpdatedField(t, kw, "status"),
     deadline |-> UpdatedField(t, kw, "deadline"),
     created_at |-> t.created_at]

\* The collection with the task of the id updated.
RECURSIVE WithUpdated(_, _, _)
WithUpdated(ts, id, kw) ==
    IF ts = <<>> THEN <<>>
    ELSE <<IF Head(ts).id = id THEN Updated(Head(ts), kw) ELSE Head(ts)>>
         \o WithUpdated(Tail(ts), id, kw)

\* update_task adding a task under the id when no task has it.
update_task_upsert(ts, st, id, kw) ==
    IF ~HasTask(ts, id)
    THEN Saved(Append(ts, Updated(Task(id, <<"a">>, <<>>, "NOT_URGENT_NOT_IMPORTANT",
                                       None, Len(ts)), kw)),
               TRUE)
    ELSE Saved(WithUpdated(ts, id, kw), TRUE)

\* TaskManager.update_task(id, **kw): kw maps the supplied field names to values.
update_task(ts, st, id, kw) ==
    IF ~HasTask(ts, id)
    THEN [tasks |-> ts, storage |-> st, result |-> FALSE]
    ELSE Saved(WithUpdated(ts, id, kw), TRUE)

RECURSIVE Without(_, _)
Without(ts, id) ==
    IF ts = <<>> THEN <<>>
    ELSE IF Head(ts).id = id THEN Without(Tail(ts), id)
    ELSE <<Head(ts)>> \o Without(Tail(ts), id)

\* TaskManager.delete_task(id)
delete_task(ts, st, id) ==
    IF ~HasTask(ts, id)
    THEN [tasks |-> ts, storage |-> st, result |-> FALSE]
    ELSE Saved(Without(ts, id), TRUE)

\* TaskManager.get_tasks_by_status(status): the matching tasks, in collection order.
RECURSIVE get_tasks_by_status(_, _)
get_tasks_by_status(ts, status) ==
    IF ts = <<>> THEN <<>>
    ELSE IF Head(ts).status = status
         THEN <<Head(ts)>> \o get_tasks_by_status(Tail(ts), status)
         ELSE get_tasks_by_status(Tail(ts), status)

DateLess(a, b) ==
    \/ a[1] < b[1]
    \/ a[1] = b[1] /\ a[2] < b[2]
    \/ a[1] = b[1] /\ a[2] = b[2] /\ a[3] < b[3]

\* key=lambda t: (t.priority rank, t.created_at)
PriorityLess(a, b) ==
    \/ PriorityRank(a.priority) < PriorityRank(b.priority)
    \/ PriorityRank(a.priority) = PriorityRank(b.priority) /\ a.created_at < b.created_at

\* key=lambda t: t.created_at
CreatedLess(a, b) == a.created_at < b.created_at

\* Tasks with a deadline by date, then the tasks without one by creation.
DeadlineLess(a, b) ==
    \/ a.deadline # None /\ b.deadline = None
    \/ a.deadline # None /\ b.deadline # None /\ DateLess(a.deadline, b.deadline)
    \/ a.deadline = None /\ b.deadline = None /\ a.created_at < b.created_at

KeyLess(mode, a, b) ==
    CASE mode = "priority" -> PriorityLess(a, b)
      [] mode = "date" -> CreatedLess(a, b)
      [] mode = "deadline" -> DeadlineLess(a, b)

\* sorted(seq, key=...): a stable insertion sort under the key of the mode.
RECURSIVE InsertSorted(_, _, _)
InsertSorted(sorted, t, mode) ==
    IF sorted = <<>> THEN <<t>>
    ELSE IF KeyLess(mode, t, Head(sorted)) THEN <<t>> \o sorted
    ELSE <<Head(sorted)>> \o InsertSorted(Tail(sorted), t, mode)

RECURSIVE SortedBy(_, _)
SortedBy(seq, mode) ==
    IF seq = <<>> THEN <<>>
    ELSE InsertSorted(SortedBy(SubSeq(seq, 1, Len(seq) - 1), mode), seq[Len(seq)], mode)

sort_tasks_by_priority(seq) == SortedBy(seq, "priority")

sort_tasks_by_date(seq) == SortedBy(seq, "date")

sort_tasks_by_deadline(seq) == SortedBy(seq, "deadline")

-----------------------------------------------------------------------------------------------------------------------------------------------------
(* Text the runs below type into the inputs.                                *)

Blank == <<" ">>

TitleA == <<"a">>

TitleB == <<"\r", "b", "U+00A0">>

Jan2Short == <<"2", "0", "2", "4", "-", "1", "-", "2", " ">>

\* 0999-12-31 with an Arabic-Indic zero and a carriage return after it.
Dec31Early == <<"U+0660", "9", "9", "9", "-", "1", "2", "-", "3", "1", "\r">>

Feb30 == <<"2", "0", "2", "4", "-", "0", "2", "-", "3", "0">>

Soon == <<"s", "o", "o", "n">>

\* The sets of input values the runs below draw from.
BlankOrA == {Blank, TitleA}

TypedTitles == {<<>>, Blank, TitleA, TitleB}

RetypedTitles == {Blank, TitleB}

CreateDeadlines == {Jan2Short, Dec31Early, Soon}

SaveDeadlines == {<<>>, Feb30}

TwoPriorities == {"URGENT_IMPORTANT", "NOT_URGENT_NOT_IMPORTANT"}

Ids == 1..MaxCreates

\* uuid4 as a generator that can repeat an id.
uuid4_any == Ids

\* str(uuid.uuid4()): an id that was never handed out before.
uuid4 == Ids \ used

-----------------------------------------------------------------------------
(* TodoApp                                                                  *)

NoColumns == [s \in Status |-> <<>>]

RECURSIVE IdsOf(_)
IdsOf(seq) == IF seq = <<>> THEN <<>> ELSE <<Head(seq).id>> \o IdsOf(Tail(seq))

\* refresh_tasks calling sort_tasks_by_date whatever the sort mode is.
SortForMode_by_date(seq, mode) == sort_tasks_by_date(seq)

\* The sort refresh_tasks applies under the current sort mode.
SortForMode(seq, mode) ==
    IF mode = "priority" THEN sort_tasks_by_priority(seq)
    ELSE IF mode = "date" THEN sort_tasks_by_date(seq)
    ELSE IF mode = "deadline" THEN sort_tasks_by_deadline(seq)
    ELSE seq

\* TodoApp.refresh_tasks(force) once the columns exist: the new
\* _last_task_count and the widgets of the three columns.
refresh_tasks(force, ts, mode, count, cols) ==
    IF ~force /\ Len(ts) = count
    THEN [last_task_count |-> count, columns |-> cols]
    ELSE [last_task_count |-> Len(ts),
          columns |-> [s \in Status |->
                          IdsOf(SortForMode(get_tasks_by_status(ts, s), mode))]]

\* The TaskWidgets on the board: what can be clicked or focused.
Widgets == UNION {{columns[s][i] : i \in 1..Len(columns[s])} : s \in Status}

NoInput == <<>>

\* How `last` shows what a manager call returned.
Outcome(b) == IF b THEN "True" ELSE "False"

Ran(op, id, title, description, priority, status, deadline, result) ==
    [op |-> op, id |-> id, title |-> title, description |-> description,
     priority |-> priority, status |-> status, deadline |-> deadline,
     result |-> result]

\* The record of a save: what Ran records, and the status the task had when
\* compose filled the status select of the screen.
RanOn(r, status) ==
    [op |-> r.op, id |-> r.id, title |-> r.title, description |-> r.description,
     priority |-> r.priority, status |-> r.status, deadline |-> r.deadline,
     result |-> r.result, was |-> status]

Init ==
    /\ phase = "constructed"
    /\ storage \in {[state |-> "absent", records |-> <<>>],
                    [state |-> "corrupt", records |-> <<>>]}
    /\ tasks = load_tasks(storage)
    /\ sort_mode = "priority"
    /\ last_task_count = 0
    /\ columns = NoColumns
    /\ used = {}
    /\ now = 0
    /\ last = [op |-> "__init__", id |-> 0, title |-> NoInput, description |-> NoInput,
               priority |-> "", status |-> "", deadline |-> NoInput,
               result |-> ""]

\* The board after refresh_tasks has returned r.
Shown(r) ==
    /\ last_task_count' = r.last_task_count
    /\ columns' = r.columns

\* The handlers calling refresh_tasks() without force.
Refreshed_unforced(ts, mode) ==
    Shown(refresh_tasks(FALSE, ts, mode, last_task_count, columns))

\* self.app.refresh_tasks(force=True) on the collection ts.
Refreshed(ts, mode) == Shown(refresh_tasks(TRUE, ts, mode, last_task_count, columns))

\* The manager call that returned m has run and the board was refreshed.
Stored(m) ==
    /\ tasks' = m.tasks
    /\ storage' = m.storage
    /\ Refreshed(m.tasks, sort_mode)

\* A handler returned early: nothing but the record of it changes.
Returned(op, id, title_in) ==
    /\ last' = Ran(op, id, title_in, NoInput, "", "", NoInput, "returned")
    /\ UNCHANGED <<phase, tasks, storage, sort_mode, last_task_count, columns, used, now>>

\* TodoApp.__init__ of the next run of the program.
Construct ==
    /\ phase = "exited"
    /\ phase' = "constructed"
    /\ tasks' = load_tasks(storage)
    /\ sort_mode' = "priority"
    /\ last_task_count' = 0
    /\ columns' = NoColumns
    /\ last' = Ran("__init__", 0, NoInput, NoInput, "", "", NoInput, "")
    /\ UNCHANGED <<storage, used, now>>

\* compose, then TodoApp.on_mount
on_mount ==
    /\ phase = "constructed"
    /\ phase' = "running"
    /\ Shown(refresh_tasks(FALSE, tasks, sort_mode, last_task_count, NoColumns))
    /\ last' = Ran("on_mount", 0, NoInput, NoInput, "", "", NoInput, "")
    /\ UNCHANGED <<tasks, storage, sort_mode, used, now>>

\* TodoApp.on_unmount
on_unmount ==
    /\ phase = "running"
    /\ phase' = "exited"
    /\ storage' = force_save(tasks)
    /\ last' = Ran("on_unmount", 0, NoInput, NoInput, "", "", NoInput, "")
    /\ UNCHANGED <<tasks, sort_mode, last_task_count, columns, used, now>>

\* The deadline NewTaskScreen.create_task builds from the stripped input text.
DeadlineOrNone(deadline_str) ==
    IF deadline_str # <<>> /\ ~strptime_fails(deadline_str)
    THEN strptime(deadline_str)
    ELSE None

CreateDeadline(deadline_in) == DeadlineOrNone(strip(deadline_in))

\* create_task from the Task(...) call on: the task gets the id, is added and shown.
AddNew(id, title, description_in, deadline_in, priority, title_in) ==
    /\ Stored(add_task(tasks, storage,
                       Task(id, title, strip(description_in), priority,
                            CreateDeadline(deadline_in), now)))
    /\ used' = used \cup {id}
    /\ now' = now + 1
    /\ last' = Ran("create_task", id, title_in, description_in, priority, "",
                   deadline_in, "created")
    /\ UNCHANGED <<phase, sort_mode>>

\* create_task without the empty-title return.
create_task_unchecked(title_in, description_in, deadline_in, priority) ==
    /\ phase = "running"
    /\ \E id \in uuid4 :
          AddNew(id, strip(title_in), description_in, deadline_in, priority, title_in)

\* create_task appending to task_manager.tasks itself instead of calling add_task.
create_task_unsaved(title_in, description_in, deadline_in, priority) ==
    /\ phase = "running"
    /\ IF strip(title_in) = <<>>
       THEN Returned("create_task", 0, title_in)
       ELSE \E id \in uuid4 :
            /\ tasks' = Append(tasks, Task(id, strip(title_in), strip(description_in),
                                           priority, CreateDeadline(deadline_in), now))
            /\ Refreshed(tasks', sort_mode)
            /\ used' = used \cup {id}
            /\ now' = now + 1
            /\ last' = Ran("create_task", id, title_in, description_in, priority, "",
                           deadline_in, "created")
            /\ UNCHANGED <<phase, storage, sort_mode>>

\* create_task giving up when the deadline text does not parse.
create_task_strict(title_in, description_in, deadline_in, priority) ==
    /\ phase = "running"
    /\ IF strip(title_in) = <<>>
          \/ (strip(deadline_in) # <<>> /\ strptime_fails(strip(deadline_in)))
       THEN /\ last' = Ran("create_task", 0, title_in, NoInput, "", "", deadline_in,
                           "returned")
            /\ UNCHANGED <<phase, tasks, storage, sort_mode, last_task_count,
                           columns, used, now>>
       ELSE \E id \in uuid4 :
               AddNew(id, strip(title_in), description_in, deadline_in, priority, title_in)

\* NewTaskScreen.create_task
create_task(title_in, description_in, deadline_in, priority) ==
    /\ phase = "running"
    /\ IF strip(title_in) = <<>>
       THEN Returned("create_task", 0, title_in)
       ELSE \E id \in uuid4 :
               AddNew(id, strip(title_in), description_in, deadline_in, priority, title_in)

\* What EditTaskScreen.compose puts in the deadline input.
DeadlinePrefill(t) == IF t.deadline # None THEN strftime(t.deadline) ELSE <<>>

\* save_task's deadline with create_task's policy: text that does not parse
\* clears the deadline.
SaveDeadline_drop(t, deadline_in) == DeadlineOrNone(strip(deadline_in))

\* The deadline EditTaskScreen.save_task builds from the stripped input text.
DeadlineOrKept(t, deadline_str) ==
    IF deadline_str = <<>> THEN None
    ELSE IF strptime_fails(deadline_str) THEN t.deadline
    ELSE strptime(deadline_str)

\* The deadline EditTaskScreen.save_task passes to update_task.
SaveDeadline(t, deadline_in) == DeadlineOrKept(t, strip(deadline_in))

\* save_task from the update_task call on, m being what the call returned.
Edited(m, tid, title_in, description_in, deadline_in, priority, status) ==
    /\ Stored(m)
    /\ last' = RanOn(Ran("save_task", tid, title_in, description_in, priority, status,
                         deadline_in, Outcome(m.result)),
                     get_task(tasks, tid).status)
    /\ UNCHANGED <<phase, sort_mode, used, now>>

\* save_task without the empty-title return.
save_task_unguarded(tid, title_in, description_in, deadline_in, priority, status) ==
    /\ phase = "running"
    /\ HasTask(tasks, tid)
    /\ Edited(update_task(tasks, storage, tid,
                            [title |-> strip(title_in),
                             description |-> strip(description_in),
                             priority |-> priority,
                             status |-> status,
                             deadline |-> SaveDeadline(get_task(tasks, tid), deadline_in)]),
                tid, title_in, description_in, deadline_in, priority, status)

\* save_task passing the priority select's value as the status.
save_task_status_from_priority(tid, title_in, description_in, deadline_in, priority, status) ==
    /\ phase = "running"
    /\ HasTask(tasks, tid)
    /\ IF strip(title_in) = <<>>
       THEN Returned("save_task", tid, title_in)
       ELSE Edited(update_task(tasks, storage, tid,
                                 [title |-> strip(title_in),
                                  description |-> strip(description_in),
                                  priority |-> priority,
                                  status |-> priority,
                                  deadline |-> SaveDeadline(get_task(tasks, tid), deadline_in)]),
                     tid, title_in, description_in, deadline_in, priority, status)

\* save_task leaving a task that is DONE in DONE, whatever status is selected.
save_task_done_stays(tid, title_in, description_in, deadline_in, priority, status) ==
    /\ phase = "running"
    /\ HasTask(tasks, tid)
    /\ IF strip(title_in) = <<>>
       THEN Returned("save_task", tid, title_in)
       ELSE Edited(update_task(tasks, storage, tid,
                                 [title |-> strip(title_in),
                                  description |-> strip(description_in),
                                  priority |-> priority,
                                  status |-> IF get_task(tasks, tid).status = "DONE"
                                             THEN "DONE" ELSE status,
                                  deadline |-> SaveDeadline(get_task(tasks, tid), deadline_in)]),
                     tid, title_in, description_in, deadline_in, priority, status)

\* EditTaskScreen.save_task, on the screen opened for task id `tid`
save_task(tid, title_in, description_in, deadline_in, priority, status) ==
    /\ phase = "running"
    /\ HasTask(tasks, tid)
    /\ IF strip(title_in) = <<>>
       THEN Returned("save_task", tid, title_in)
       ELSE Edited(update_task(tasks, storage, tid,
                                 [title |-> strip(title_in),
                                  description |-> strip(description_in),
                                  priority |-> priority,
                                  status |-> status,
                                  deadline |-> SaveDeadline(get_task(tasks, tid), deadline_in)]),
                     tid, title_in, description_in, deadline_in, priority, status)

\* delete_task that refreshes and dismisses without calling the manager.
edit_delete_task_dismiss(tid) ==
    /\ phase = "running"
    /\ Refreshed(tasks, sort_mode)
    /\ last' = Ran("delete_task", tid, NoInput, NoInput, "", "", NoInput, "")
    /\ UNCHANGED <<phase, tasks, storage, sort_mode, used, now>>

\* delete_task from the manager call on, m being what the call returned.
Deleted(m, tid) ==
    /\ Stored(m)
    /\ last' = Ran("delete_task", tid, NoInput, NoInput, "", "", NoInput, Outcome(m.result))
    /\ UNCHANGED <<phase, sort_mode, used, now>>

\* EditTaskScreen.delete_task, on the screen opened for task id `tid`
edit_delete_task(tid) ==
    /\ phase = "running"
    /\ Deleted(delete_task(tasks, storage, tid), tid)

\* action_toggle_sort with sorts that reorder task_manager.tasks itself.
action_toggle_sort_in_place ==
    /\ phase = "running"
    /\ sort_mode' = (IF sort_mode = "priority" THEN "date"
                     ELSE IF sort_mode = "date" THEN "deadline"
                     ELSE "priority")
    /\ tasks' = SortForMode(tasks, sort_mode')
    /\ Refreshed(tasks', sort_mode')
    /\ last' = Ran("action_toggle_sort", 0, NoInput, NoInput, "", "", NoInput, "")
    /\ UNCHANGED <<phase, storage, used, now>>

\* action_toggle_sort switching between priority and date only.
action_toggle_sort_two_way ==
    /\ phase = "running"
    /\ sort_mode' = (IF sort_mode = "priority" THEN "date" ELSE "priority")
    /\ Refreshed(tasks, sort_mode')
    /\ last' = Ran("action_toggle_sort", 0, NoInput, NoInput, "", "", NoInput, "")
    /\ UNCHANGED <<phase, tasks, storage, used, now>>

\* TodoApp.action_toggle_sort
action_toggle_sort ==
    /\ phase = "running"
    /\ sort_mode' = (IF sort_mode = "priority" THEN "date"
                     ELSE IF sort_mode = "date" THEN "deadline"
                     ELSE "priority")
    /\ Refreshed(tasks, sort_mode')
    /\ last' = Ran("action_toggle_sort", 0, NoInput, NoInput, "", "", NoInput, "")
    /\ UNCHANGED <<phase, tasks, storage, used, now>>

\* A move left that wraps around from TODO to DONE.
LeftOf_wrap(status) ==
    IF status = "DONE" THEN "DOING" ELSE IF status = "DOING" THEN "TODO" ELSE "DONE"

\* The status a move gives, or "" for none.
LeftOf(status) ==
    IF status = "DONE" THEN "DOING" ELSE IF status = "DOING" THEN "TODO" ELSE ""

RightOf(status) ==
    IF status = "TODO" THEN "DOING" ELSE IF status = "DOING" THEN "DONE" ELSE ""

\* A move from the update_task call on, m being what the call returned.
Moved(m, op, tid, new_status) ==
    /\ Stored(m)
    /\ last' = Ran(op, tid, NoInput, NoInput, "", new_status, NoInput, Outcome(m.result))
    /\ UNCHANGED <<phase, sort_mode, used, now>>

\* A move done as a delete of the task and an add of a fresh Task in the
\* new status.
MoveTask_recreate(op, tid, new_status) ==
    /\ phase = "running"
    /\ IF new_status = ""
       THEN Returned(op, tid, NoInput)
       ELSE Moved(Saved(Append(Without(tasks, tid),
                               [get_task(tasks, tid) EXCEPT !.status = new_status,
                                                            !.created_at = now]),
                        TRUE),
                  op, tid, new_status)

\* The body shared by action_move_task_left and action_move_task_right.
MoveTask(op, tid, new_status) ==
    /\ phase = "running"
    /\ IF new_status = ""
       THEN Returned(op, tid, NoInput)
       ELSE Moved(update_task(tasks, storage, tid, [status |-> new_status]),
                  op, tid, new_status)

\* TodoApp.action_move_task_left, with the TaskWidget of task `tid` focused
action_move_task_left(tid) ==
    /\ HasTask(tasks, tid)
    /\ MoveTask("action_move_task_left", tid, LeftOf(get_task(tasks, tid).status))

\* TodoApp.action_move_task_right, with the TaskWidget of task `tid` focused
action_move_task_right(tid) ==
    /\ HasTask(tasks, tid)
    /\ MoveTask("action_move_task_right", tid, RightOf(get_task(tasks, tid).status))

\* A press of Create on a NewTaskScreen, the inputs drawn from the given sets.
CreateStep(T, D, DL, P) ==
    /\ now < MaxCreates
    /\ \E title_in \in T, description_in \in D, deadline_in \in DL, priority \in P :
          create_task(title_in, description_in, deadline_in, priority)

\* A press of Save on the EditTaskScreen of a clicked widget: every input is
\* either left as compose filled it or replaced by one of the given values.
SaveStep(T, D, DL, P, S) ==
    \E tid \in Widgets \cap TaskIds(tasks) :
       LET t == get_task(tasks, tid) IN
       \E title_in \in T \cup {t.title},
          description_in \in D \cup {t.description},
          deadline_in \in DL \cup {DeadlinePrefill(t)},
          priority \in P \cup {t.priority},
          status \in S \cup {t.status} :
          save_task(tid, title_in, description_in, deadline_in, priority, status)

DeleteStep == \E tid \in Widgets : edit_delete_task(tid)

MoveLeftStep == \E tid \in Widgets : action_move_task_left(tid)

MoveRightStep == \E tid \in Widgets : action_move_task_right(tid)

\* The handlers that take no typed input.
BoardStep ==
    \/ Construct
    \/ on_mount
    \/ on_unmount
    \/ DeleteStep
    \/ action_toggle_sort
    \/ MoveLeftStep
    \/ MoveRightStep

\* The program with every status and two priorities in play.
Next ==
    \/ BoardStep
    \/ CreateStep(BlankOrA, {<<>>}, {<<>>}, TwoPriorities)
    \/ SaveStep({Blank}, {}, {}, TwoPriorities, Status)

Spec == Init /\ [][Next]_vars

\* The program with empty, blank and padded titles typed.
NextTitle ==
    \/ BoardStep
    \/ CreateStep(TypedTitles, {<<>>}, {<<>>}, {"NOT_URGENT_NOT_IMPORTANT"})
    \/ SaveStep(RetypedTitles, {}, {}, {}, Status)

SpecTitle == Init /\ [][NextTitle]_vars

\* The program with well-formed and malformed deadline text typed: tasks are
\* created, edited and deleted, the board is left in the sort mode it starts in.
NextDeadline ==
    \/ Construct
    \/ on_mount
    \/ on_unmount
    \/ DeleteStep
    \/ CreateStep({TitleA}, {<<>>}, CreateDeadlines, {"NOT_URGENT_NOT_IMPORTANT"})
    \/ SaveStep({}, {}, SaveDeadlines, {}, Status)

SpecDeadline == Init /\ [][NextDeadline]_vars

\* TaskManager.delete_task called with an id that matches no task, as a caller
\* other than the edit screen can.
manager_delete_missing(id) ==
    /\ phase = "running"
    /\ ~HasTask(tasks, id)
    /\ tasks' = delete_task(tasks, storage, id).tasks
    /\ storage' = delete_task(tasks, storage, id).storage
    /\ last' = Ran("delete_task", id, NoInput, NoInput, "", "", NoInput,
                   Outcome(delete_task(tasks, storage, id).result))
    /\ UNCHANGED <<phase, sort_mode, last_task_count, columns, used, now>>

DeleteMissingStep == \E id \in Ids : manager_delete_missing(id)

\* TaskManager.update_task called with an id that matches no task, as a caller
\* other than the edit screen and the moves can.
manager_update_missing(id, kw) ==
    /\ phase = "running"
    /\ ~HasTask(tasks, id)
    /\ tasks' = update_task(tasks, storage, id, kw).tasks
    /\ storage' = update_task(tasks, storage, id, kw).storage
    /\ last' = Ran("update_task", id, NoInput, NoInput, "", kw.status, NoInput,
                   Outcome(update_task(tasks, storage, id, kw).result))
    /\ UNCHANGED <<phase, sort_mode, last_task_count, columns, used, now>>

UpdateMissingStep ==
    \E id \in Ids, kw \in {[status |-> "DONE"], [title |-> TitleB, status |-> "DOING"]} :
       manager_update_missing(id, kw)

\* The program, and the manager's delete and update called for ids it does
\* not hold.
NextMgr ==
    \/ Next
    \/ DeleteMissingStep
    \/ UpdateMissingStep

SpecMgr == Init /\ [][NextMgr]_vars

\* Deadlines of the tasks a storage file left by an earlier run holds.
Jan1 == <<2024, 1, 1>>

Mar1 == <<2024, 3, 1>>

\* The priority and deadline a stored task can have: every priority without a
\* deadline, and the least urgent one with and without a deadline.
StoredKinds ==
    {[priority |-> p, deadline |-> None] : p \in Priority}
    \cup {[priority |-> "NOT_URGENT_NOT_IMPORTANT", deadline |-> d] : d \in {Jan1, Mar1}}

\* The collections of n tasks an earlier run can have left: created one after
\* the other, each still TODO.
StoredTasks(n) ==
    {[i \in 1..n |->
         [id |-> i, title |-> TitleA, description |-> <<>>,
          priority |-> k[i].priority, status |-> "TODO",
          deadline |-> k[i].deadline, created_at |-> i - 1]] :
     k \in [1..n -> StoredKinds]}

\* The storage files save_tasks wrote of them.
StoredFiles == {save_tasks(ts) : ts \in UNION {StoredTasks(n) : n \in 0..MaxStored}}

\* TodoApp() started on a storage file of an earlier run.
InitSort ==
    /\ phase = "constructed"
    /\ storage \in StoredFiles
    /\ tasks = load_tasks(storage)
    /\ sort_mode = "priority"
    /\ last_task_count = 0
    /\ columns = NoColumns
    /\ used = TaskIds(tasks)
    /\ now = Len(tasks)
    /\ last = Ran("__init__", 0, NoInput, NoInput, "", "", NoInput, "")

\* The board of that run: shown, re-sorted, left and started again.
NextSort ==
    \/ Construct
    \/ on_mount
    \/ on_unmount
    \/ action_toggle_sort

SpecSort == InitSort /\ [][NextSort]_vars

\* A readable storage file holding a record from_dict cannot rebuild a Task
\* from: its priority is not a tag of the enumeration.
BadFile ==
    [state |-> "ok",
     records |-> <<[id |-> 1, title |-> TitleA, description |-> <<>>,
                    priority |-> "high", status |-> "todo", deadline |-> None,
                    created_at |-> <<"0">>]>>]

\* TodoApp() started with no storage file, an unreadable one or a corrupt one.
InitCorrupt ==
    /\ phase = "constructed"
    /\ storage \in {[state |-> "absent", records |-> <<>>],
                    [state |-> "corrupt", records |-> <<>>],
                    BadFile}
    /\ tasks = load_tasks(storage)
    /\ sort_mode = "priority"
    /\ last_task_count = 0
    /\ columns = NoColumns
    /\ used = {}
    /\ now = 0
    /\ last = Ran("__init__", 0, NoInput, NoInput, "", "", NoInput, "")

SpecCorrupt == InitCorrupt /\ [][Next]_vars

-----------------------------------------------------------------------------
(* Properties                                                               *)

\* The last handler was a create that got past the title check.
Created == last.op = "create_task" /\ last.result = "created"

\* What the handler that just ran (last') says about the step it took.
DidCreate == last'.op = "create_task"

DidSave == last'.op = "save_task"

DidDelete == last'.op = "delete_task"

\* Non-empty text that strptime rejects.
Malformed(text) == strip(text) # <<>> /\ strptime_fails(strip(text))

\* How often id occurs in a sequence of tasks.
Occurrences(seq, id) == Cardinality({i \in 1..Len(seq) : seq[i].id = id})

\* C1: in every reachable state, after any creates, updates, deletes and loads,
\* no two tasks of the collection have the same id.
C1_UniqueIds ==
    \A i, j \in 1..Len(tasks) : i # j => tasks[i].id # tasks[j].id

\* Two tasks are in a collection that was just loaded from storage.
C1_Witness == Len(tasks) >= 2 /\ last.op = "__init__"

\* C2: in every reachable state, every task of the collection has a title that
\* is non-empty after trimming whitespace.
C2_TitleNonEmpty ==
    \A i \in 1..Len(tasks) : strip(tasks[i].title) # <<>>

\* A save with a blank title was just tried on a collection that holds a task.
C2_Witness ==
    /\ last.op = "save_task"
    /\ strip(last.title) = <<>>
    /\ HasTask(tasks, last.id)

\* C3: in every reachable state the persisted snapshot decodes to exactly the
\* in-memory collection: no completed create, update or delete is in memory
\* and not in storage.
C3_WriteThrough == load_tasks(storage) = tasks

\* A delete just succeeded and left a task behind, after an earlier update.
C3_Witness ==
    /\ last.op = "delete_task"
    /\ last.result = "True"
    /\ \E i \in 1..Len(tasks) : tasks[i].status # "TODO"

\* C4: saving any reachable collection and loading it into a fresh manager
\* gives the same tasks in the same order with the same fields.
C4_RoundTrip == load_tasks(save_tasks(tasks)) = tasks

\* A restarted program holds a task that is no longer TODO, with a deadline
\* in a year of fewer than four digits.
C4_Witness ==
    /\ last.op = "__init__"
    /\ \E i \in 1..Len(tasks) :
          /\ tasks[i].deadline # None
          /\ tasks[i].deadline[1] < 1000
          /\ tasks[i].status # "TODO"

\* C5 as stated: when an edit is saved with a title that trims to empty and
\* another status selected, the stored title is unchanged, the selected
\* status is applied and the update reports success.
C5_BlankTitleAppliesRest ==
    [][\A tid \in Ids, status \in Status :
          (/\ HasTask(tasks, tid)
           /\ save_task(tid, Blank, get_task(tasks, tid).description,
                        DeadlinePrefill(get_task(tasks, tid)),
                        get_task(tasks, tid).priority, status))
          => /\ get_task(tasks', tid).title = get_task(tasks, tid).title
             /\ get_task(tasks', tid).status = status
             /\ last'.result = "True"]_vars

\* C5 (amended): when an edit is saved with a title that trims to empty, the
\* whole save is dropped: update_task is not called, no field of any task
\* changes and nothing is written to storage.
C5_BlankTitleDropsSave ==
    [][(DidSave /\ strip(last'.title) = <<>>)
          => /\ tasks' = tasks
             /\ storage' = storage
             /\ last'.result = "returned"]_vars

\* A save with a blank title just ran on a task that is still in the collection.
C5_Witness ==
    /\ last.op = "save_task"
    /\ last.title = Blank
    /\ last.result = "returned"
    /\ HasTask(tasks, last.id)

\* C6: a create whose title is empty or only whitespace returns no task and
\* changes neither the collection nor the persisted snapshot.
C6_BlankCreateNoMutation ==
    [][(DidCreate /\ strip(last'.title) = <<>>)
          => /\ tasks' = tasks
             /\ storage' = storage
             /\ last'.result = "returned"]_vars

\* A create with a whitespace-only title just ran on a non-empty collection.
C6_Witness ==
    /\ last.op = "create_task"
    /\ last.title = Blank
    /\ Len(tasks) >= 1

\* C7: when an edit is saved for an existing task with deadline text that does
\* not parse as YYYY-MM-DD, the task keeps the deadline it had (a date or
\* none) and the other fields of the form are applied.
C7_MalformedKeepsDeadline ==
    [][(DidSave /\ last'.result = "True" /\ Malformed(last'.deadline))
          => /\ HasTask(tasks, last'.id) /\ HasTask(tasks', last'.id)
             /\ get_task(tasks', last'.id).deadline = get_task(tasks, last'.id).deadline
             /\ get_task(tasks', last'.id).title = strip(last'.title)
             /\ get_task(tasks', last'.id).description = strip(last'.description)
             /\ get_task(tasks', last'.id).priority = last'.priority
             /\ get_task(tasks', last'.id).status = last'.status]_vars

\* A save just ran on a task that has a deadline and moved it to another
\* status; the deadline text was left as the screen filled it in, which for a
\* year of fewer than four digits is text that does not parse.
C7_Witness ==
    /\ last.op = "save_task"
    /\ last.result = "True"
    /\ Malformed(last.deadline)
    /\ HasTask(tasks, last.id)
    /\ get_task(tasks, last.id).deadline # None
    /\ last.deadline = DeadlinePrefill(get_task(tasks, last.id))
    /\ last.was = "TODO"
    /\ get_task(tasks, last.id).status = "DONE"

\* C8: a create with a non-empty title and deadline text that does not parse
\* as YYYY-MM-DD still appends a new task, and that task has no deadline.
C8_MalformedCreatesWithout ==
    [][(DidCreate /\ strip(last'.title) # <<>> /\ Malformed(last'.deadline))
          => /\ last'.result = "created"
             /\ Len(tasks') = Len(tasks) + 1
             /\ SubSeq(tasks', 1, Len(tasks)) = tasks
             /\ tasks'[Len(tasks')].id = last'.id
             /\ tasks'[Len(tasks')].title = strip(last'.title)
             /\ tasks'[Len(tasks')].deadline = None]_vars

\* A create with malformed deadline text just added a second task.
C8_Witness ==
    /\ Created
    /\ Malformed(last.deadline)
    /\ Len(tasks) = 2
    /\ tasks[2].id = last.id

\* C9: delete with an id that is not in the collection returns failure and
\* leaves the collection as it was; delete with an id that is in it returns
\* success, removes exactly that task and leaves the others as they were,
\* and from then on no get_tasks_by_status query returns that id.
C9_Delete ==
    [][/\ DidDelete =>
            IF HasTask(tasks, last'.id)
            THEN /\ last'.result = "True"
                 /\ Len(tasks') = Len(tasks) - 1
                 /\ tasks' = SelectSeq(tasks, LAMBDA t : t.id # last'.id)
            ELSE /\ last'.result = "False"
                 /\ tasks' = tasks
       /\ \A id \in used \ TaskIds(tasks), s \in Status :
             Occurrences(get_tasks_by_status(tasks', s), id) = 0]_vars

\* A task was deleted, and a second delete for its id just failed on the
\* task that is left.
C9_Witness ==
    /\ last.op = "delete_task"
    /\ last.result = "False"
    /\ last.id \in used \ TaskIds(tasks)
    /\ Len(tasks) = 1

\* C10: in every reachable state, every task of the collection is returned
\* exactly once by get_tasks_by_status for its own status and not at all for
\* the other two, and each query returns its tasks in creation order.
C10_QueryByStatus ==
    /\ \A i \in 1..Len(tasks) :
          \E s \in Status : Occurrences(get_tasks_by_status(tasks, s), tasks[i].id) = 1
    /\ \A s \in Status :
          LET q == get_tasks_by_status(tasks, s) IN
          /\ \A i \in 1..Len(tasks) :
                Occurrences(q, tasks[i].id) = (IF tasks[i].status = s THEN 1 ELSE 0)
          /\ \A i, j \in 1..Len(q) : i < j => q[i].created_at < q[j].created_at

\* Two tasks share a status after the one created first was edited.
C10_Witness ==
    /\ Len(tasks) = 2
    /\ tasks[1].status = "DOING" /\ tasks[2].status = "DOING"
    /\ last.op = "save_task" /\ last.id = tasks[1].id

\* The handler that just ran was a move.
DidMove == last'.op \in {"action_move_task_left", "action_move_task_right"}

\* C11: an edit-save or a left/right move leaves every task at its place with
\* the id and created_at it had, and over any step (a restart included) a
\* task that stays in the collection keeps the created_at it was created with.
C11_IdAndCreatedAtKept ==
    [][/\ (DidSave \/ DidMove) =>
            /\ Len(tasks') = Len(tasks)
            /\ \A i \in 1..Len(tasks) :
                  /\ tasks'[i].id = tasks[i].id
                  /\ tasks'[i].created_at = tasks[i].created_at
       /\ (DidCreate /\ last'.result = "created") =>
            /\ tasks'[Len(tasks')].id = last'.id
            /\ tasks'[Len(tasks')].created_at = now
       /\ \A id \in TaskIds(tasks) \cap TaskIds(tasks') :
             get_task(tasks', id).created_at = get_task(tasks, id).created_at]_vars

\* The task created second was just moved left, next to a task that was
\* moved or edited to DONE.
C11_Witness ==
    /\ last.op = "action_move_task_left"
    /\ last.result = "True"
    /\ Len(tasks) = 2
    /\ tasks[2].id = last.id
    /\ tasks[2].created_at = 1
    /\ tasks[1].status = "DONE"

\* Every order the tasks of a collection can be handed to a sort in.
Orders(ts) ==
    {[i \in 1..Len(ts) |-> ts[f[i]]] :
     f \in {g \in [1..Len(ts) -> 1..Len(ts)] :
               \A i, j \in 1..Len(ts) : i # j => g[i] # g[j]}}

\* The tasks a column shows, top to bottom.
ColumnTasks(s) == [i \in 1..Len(columns[s]) |-> get_task(tasks, columns[s][i])]

\* A date as one number, YYYYMMDD.
DateKey(d) == d[1] * 10000 + d[2] * 100 + d[3]

\* Tasks with a deadline first, by ascending date, then the tasks without a
\* deadline in creation order.
DeadlineOrdered(seq) ==
    \A i, j \in 1..Len(seq) :
       i < j =>
          \/ seq[i].deadline # None /\ seq[j].deadline = None
          \/ /\ seq[i].deadline # None /\ seq[j].deadline # None
             /\ DateKey(seq[i].deadline) <= DateKey(seq[j].deadline)
          \/ /\ seq[i].deadline = None /\ seq[j].deadline = None
             /\ seq[i].created_at < seq[j].created_at

\* C12: sort_tasks_by_deadline, given the tasks of the collection in any
\* order, returns the same tasks with those that have a deadline first, by
\* ascending date, and those without one after them in creation order; and
\* that is the order the board shows each column in under the deadline mode.
C12_SortByDeadline ==
    /\ \A seq \in Orders(tasks) :
          /\ sort_tasks_by_deadline(seq) \in Orders(tasks)
          /\ DeadlineOrdered(sort_tasks_by_deadline(seq))
    /\ (phase = "running" /\ sort_mode = "deadline") =>
          \A s \in Status :
             /\ ColumnTasks(s) \in Orders(get_tasks_by_status(tasks, s))
             /\ DeadlineOrdered(ColumnTasks(s))

\* The board shows, by deadline, a task without a deadline created before a
\* task due in March created before a task due in January.
C12_Witness ==
    /\ phase = "running"
    /\ sort_mode = "deadline"
    /\ last.op = "action_toggle_sort"
    /\ Len(tasks) = 3
    /\ tasks[1].deadline = None
    /\ tasks[2].deadline = Mar1
    /\ tasks[3].deadline = Jan1
    /\ columns["TODO"] = <<3, 2, 1>>

\* The rank the priorities sort by.
RankOf(p) ==
    CASE p = "URGENT_IMPORTANT" -> 0
      [] p = "NOT_URGENT_IMPORTANT" -> 1
      [] p = "URGENT_NOT_IMPORTANT" -> 2
      [] p = "NOT_URGENT_NOT_IMPORTANT" -> 3

\* Ascending by priority rank, tasks of one priority in creation order.
PriorityOrdered(seq) ==
    \A i, j \in 1..Len(seq) :
       i < j =>
          \/ RankOf(seq[i].priority) < RankOf(seq[j].priority)
          \/ /\ RankOf(seq[i].priority) = RankOf(seq[j].priority)
             /\ seq[i].created_at < seq[j].created_at

\* C13: sort_tasks_by_priority, given the tasks of the collection in any
\* order, returns the same tasks ascending by priority rank with tasks of one
\* priority in creation order; and that is the order the board shows each
\* column in under the priority mode.
C13_SortByPriority ==
    /\ \A seq \in Orders(tasks) :
          /\ sort_tasks_by_priority(seq) \in Orders(tasks)
          /\ PriorityOrdered(sort_tasks_by_priority(seq))
    /\ (phase = "running" /\ sort_mode = "priority") =>
          \A s \in Status :
             /\ ColumnTasks(s) \in Orders(get_tasks_by_status(tasks, s))
             /\ PriorityOrdered(ColumnTasks(s))

\* The board shows, by priority, tasks created as not-urgent-not-important,
\* urgent-important and urgent-not-important.
C13_Witness ==
    /\ phase = "running"
    /\ sort_mode = "priority"
    /\ last.op = "on_mount"
    /\ Len(tasks) = 3
    /\ tasks[1].priority = "NOT_URGENT_NOT_IMPORTANT"
    /\ tasks[2].priority = "URGENT_IMPORTANT"
    /\ tasks[3].priority = "URGENT_NOT_IMPORTANT"
    /\ columns["TODO"] = <<2, 3, 1>>

\* Storage a manager cannot load its tasks from.
Unusable(st) ==
    \/ st.state # "ok"
    \/ \E i \in 1..Len(st.records) : ~Decodable(st.records[i])

\* C14: while storage is absent, unreadable or corrupt the manager holds the
\* empty collection; a create, update or delete that succeeds and the final
\* save each leave a storage file that loads back to the collection.
C14_CorruptStart ==
    /\ [](Unusable(storage) => tasks = <<>>)
    /\ [][/\ (tasks' # tasks \/ storage' # storage) =>
               /\ ~Unusable(storage')
               /\ load_tasks(storage') = tasks'
          /\ (Unusable(storage) /\ DidCreate /\ strip(last'.title) # <<>>) =>
               /\ last'.result = "created"
               /\ Len(tasks') = 1]_vars

\* The program started without usable storage, and the only task ever
\* created was just deleted.
C14_Witness ==
    /\ last.op = "delete_task"
    /\ last.result = "True"
    /\ now = 1
    /\ tasks = <<>>
    /\ storage = [state |-> "ok", records |-> <<>>]

\* C15: a task that was just created is TODO, and an edit-save that reaches
\* update_task puts the task in the status selected on the screen whatever
\* status it was in before; no status is terminal and no transition is
\* forbidden.
C15_StatusTransitions ==
    [][/\ (DidCreate /\ last'.result = "created") =>
            tasks'[Len(tasks')].status = "TODO"
       /\ (DidSave /\ strip(last'.title) # <<>>) =>
            /\ last'.result = "True"
            /\ last'.was = get_task(tasks, last'.id).status
            /\ get_task(tasks', last'.id).status = last'.status]_vars

\* A save just put a task that was DONE back in TODO.
C15_Witness ==
    /\ last.op = "save_task"
    /\ last.result = "True"
    /\ last.was = "DONE"
    /\ last.status = "TODO"
    /\ get_task(tasks, last.id).status = "TODO"

\* C16: update_task with an id that matches no task returns False and leaves
\* the collection (its size, its tasks and their fields) and the persisted
\* snapshot as they were.
C16_UpdateMissing ==
    [][(last'.op = "update_task" /\ ~HasTask(tasks, last'.id))
          => /\ last'.result = "False"
             /\ Len(tasks') = Len(tasks)
             /\ tasks' = tasks
             /\ storage' = storage]_vars

\* An update for the id of a deleted task just failed on the task that is left.
C16_Witness ==
    /\ last.op = "update_task"
    /\ last.result = "False"
    /\ last.id \in used \ TaskIds(tasks)
    /\ Len(tasks) = 1

\* C17: the handlers that only query and sort (on_mount and the sort toggle,
\* through refresh_tasks) leave the collection, its order and every field of
\* its tasks, and the persisted snapshot as they were, however often and in
\* whatever order they run.
C17_QueriesDoNotMutate ==
    [][(last'.op \in {"on_mount", "action_toggle_sort"})
          => /\ tasks' = tasks
             /\ storage' = storage]_vars

\* The board is back in priority mode after a toggle, showing three tasks in
\* another order than the collection holds them in.
C17_Witness ==
    /\ last.op = "action_toggle_sort"
    /\ sort_mode = "priority"
    /\ Len(tasks) = 3
    /\ columns["TODO"] # IdsOf(tasks)
    /\ load_tasks(storage) = tasks

\* How many widgets of column s show the task of the id.
ShownIn(s, id) == Cardinality({k \in 1..Len(columns[s]) : columns[s][k] = id})

\* C18: while the board is up, after on_mount and after every handler, each
\* column holds exactly the tasks whose status is the column's status: every
\* task has one widget in the column of its status and none in the other
\* two, and a column has no other widgets. The board is never stale.
C18_ColumnsShowTasks ==
    phase = "running" =>
       \A s \in Status :
          /\ Len(columns[s]) = Len(get_tasks_by_status(tasks, s))
          /\ \A i \in 1..Len(tasks) :
                ShownIn(s, tasks[i].id) = (IF tasks[i].status = s THEN 1 ELSE 0)

\* A save just changed the status of one of two tasks: the task count is
\* what it was at the last refresh, and the task shows in its new column.
C18_Witness ==
    /\ phase = "running"
    /\ last.op = "save_task"
    /\ last.result = "True"
    /\ last.was # last.status
    /\ Len(tasks) = 2
    /\ last_task_count = 2
    /\ ShownIn(last.status, last.id) = 1

\* The column a move of the named handler takes a task of the status to,
\* "" at the edge of the board.
Adjacent(op, status) ==
    IF op = "action_move_task_left"
    THEN CASE status = "TODO" -> ""
           [] status = "DOING" -> "TODO"
           [] status = "DONE" -> "DOING"
    ELSE CASE status = "TODO" -> "DOING"
           [] status = "DOING" -> "DONE"
           [] status = "DONE" -> ""

\* C19: a move left or right of the focused task puts that task in the
\* adjacent column and changes nothing else: every other task and every
\* other field of the task stay as they were; at the edge of the board (left
\* of TODO, right of DONE) no update is issued and nothing changes.
C19_MoveAdjacent ==
    [][DidMove =>
         IF Adjacent(last'.op, get_task(tasks, last'.id).status) = ""
         THEN /\ last'.result = "returned"
              /\ tasks' = tasks
              /\ storage' = storage
         ELSE /\ last'.result = "True"
              /\ Len(tasks') = Len(tasks)
              /\ \A i \in 1..Len(tasks) :
                    tasks'[i] =
                       IF tasks[i].id = last'.id
                       THEN [tasks[i] EXCEPT
                                !.status = Adjacent(last'.op, tasks[i].status)]
                       ELSE tasks[i]]_vars

\* A move left was just tried on a TODO task while the other task is DONE.
C19_Witness ==
    /\ last.op = "action_move_task_left"
    /\ last.result = "returned"
    /\ Len(tasks) = 2
    /\ get_task(tasks, last.id).status = "TODO"
    /\ \E i \in 1..2 : tasks[i].status = "DONE"

\* The mode a toggle advances a sort mode to.
ModeAfter(mode) ==
    CASE mode = "priority" -> "date"
      [] mode = "date" -> "deadline"
      [] mode = "deadline" -> "priority"

\* C20: the sort mode is "priority" when the app is constructed and always one
\* of priority, date and deadline; a toggle advances it priority -> date ->
\* deadline -> priority and leaves the collection and the snapshot as they
\* were; no other handler changes it, so three toggles of a run give back
\* the mode they started from.
C20_SortModeCycle ==
    /\ [](sort_mode \in {"priority", "date", "deadline"})
    /\ [](last.op = "__init__" => sort_mode = "priority")
    /\ [][IF last'.op = "action_toggle_sort"
          THEN /\ sort_mode' = ModeAfter(sort_mode)
               /\ tasks' = tasks
               /\ storage' = storage
          ELSE last'.op # "__init__" => sort_mode' = sort_mode]_vars

\* A toggle just brought the board of two tasks back to the priority mode.
C20_Witness ==
    /\ last.op = "action_toggle_sort"
    /\ sort_mode = "priority"
    /\ Len(tasks) = 2
    /\ phase = "running"

====
